---- MODULE Spec2Model ----
(***************************************************************************)
(* Model of poetry-plugin-package-info (plugin.py).                        *)
(*                                                                         *)
(*  - SpecTar : append_tar_file, one action per I/O step of the function,  *)
(*              with I/O faults and interruption between the steps.        *)
(*  - Spec    : the plugin instance driven by the host: the manual         *)
(*              generate command and the terminate listener, one action    *)
(*              per handler.                                               *)
(***************************************************************************)
EXTENDS Integers, Sequences, FiniteSets, TLC

\* ------------------------------------------------------------------ bounds
\* Largest number of entries of an archive present before a call.
MaxEntries == 2

\* ------------------------------------------------------- generic helpers
Last(s) == s[Len(s)]

RECURSIVE SeqsUpTo(_, _)
\* All sequences over S of length 0..n.
SeqsUpTo(S, n) ==
    IF n = 0 THEN {<<>>}
    ELSE LET shorter == SeqsUpTo(S, n - 1)
         IN  shorter \cup {Append(s, x) : s \in shorter, x \in S}

RECURSIVE SelectNot(_, _)
\* The entries of s whose name differs from name, in order.
SelectNot(s, name) ==
    IF s = <<>> THEN <<>>
    ELSE IF Head(s).name # name
         THEN <<Head(s)>> \o SelectNot(Tail(s), name)
         ELSE SelectNot(Tail(s), name)

NamesOf(s) == {s[i].name : i \in 1..Len(s)}

\* ------------------------------------------------------------ file names
\* A file name is a sequence of tokens; the token "." is the dot character,
\* every other token is a non-empty run of characters without a dot.
Dot == "."

RECURSIVE SplitAtDots(_, _)
\* str.split("."): the pieces between the dots, cur is the piece being read.
SplitAtDots(s, cur) ==
    IF s = <<>> THEN <<cur>>
    ELSE IF Head(s) = Dot
         THEN <<cur>> \o SplitAtDots(Tail(s), <<>>)
         ELSE SplitAtDots(Tail(s), Append(cur, Head(s)))

RECURSIVE LStripDots(_)
\* str.lstrip("."): drop the leading dots.
LStripDots(s) ==
    IF s # <<>> /\ Head(s) = Dot THEN LStripDots(Tail(s)) ELSE s

\* pathlib.PurePath.suffixes: [] for a name ending in a dot, otherwise "."
\* + piece for every piece but the first of the name without leading dots.
Suffixes(name) ==
    IF name # <<>> /\ Last(name) = Dot THEN <<>>
    ELSE LET pieces == SplitAtDots(LStripDots(name), <<>>)
         IN  [i \in 1..(Len(pieces) - 1) |-> <<Dot>> \o pieces[i + 1]]

\* suffixes[-2:]
LastTwo(s) == IF Len(s) <= 2 THEN s ELSE SubSeq(s, Len(s) - 1, Len(s))

\* get_compression: the result is [exc, value]; exc = "none" when it returns.
get_compression(filename) ==
    LET suffixes == LastTwo(Suffixes(filename))
    IN  IF Len(suffixes) # 2
        THEN [exc |-> "ValueError", value |-> <<>>]      \* tuple unpacking
        ELSE LET tar         == LStripDots(suffixes[1])
                 compression == LStripDots(suffixes[2])
             IN  IF tar = <<"tgz">>
                 THEN IF compression # <<>>
                      THEN [exc |-> "RuntimeError", value |-> <<>>]
                      ELSE [exc |-> "none", value |-> <<"gz">>]
                 ELSE IF tar # <<"tar">>
                 THEN [exc |-> "RuntimeError", value |-> <<>>]
                 ELSE IF compression = <<>>
                 THEN [exc |-> "none", value |-> <<>>]
                 ELSE [exc |-> "none", value |-> compression]

\* ------------------------------------------------------------- archives
\* A file on disk: whether it exists, the entries written to it so far and
\* whether it was closed as a complete archive (end-of-archive written).
NoFile == [exists |-> FALSE, entries |-> <<>>, complete |-> FALSE]
ArchiveFile(es) == [exists |-> TRUE, entries |-> es, complete |-> TRUE]

\* tarfile.TarInfo(file_name) with tarinfo.size = len(data): mtime is 0.
TarInfo(file_name, data) ==
    [name |-> file_name, mtime |-> 0, size |-> Len(data), content |-> data]

\* TarFile.getmember(name): the LAST member of that name.
getmember(entries, name) ==
    entries[CHOOSE i \in 1..Len(entries) :
               /\ entries[i].name = name
               /\ \A j \in (i + 1)..Len(entries) : entries[j].name # name]

\* tar.extractfile(member.name): the data of the member getmember finds.
extractfile(entries, member) == getmember(entries, member.name).content

\* tmp.addfile(member, fileobj): the header of member, then member.size
\* bytes of fileobj; OSError("unexpected end of data") when fileobj is
\* shorter.
addfile_ok(member, fileobj) == Len(fileobj) >= member.size
addfile(member, fileobj) ==
    [name |-> member.name, mtime |-> member.mtime, size |-> member.size,
     content |-> SubSeq(fileobj, 1, member.size)]


\* ------------------------------------------------- append_tar_file state
VARIABLES
    data_bytes,     \* argument: the bytes of the new entry
    file_name,      \* argument: the name of the new entry
    tar_file_path,  \* argument: the file name of the archive (tokens)
    replace,        \* argument
    archive,        \* the file at tar_file_path
    original,       \* the file at tar_file_path when the call started
    tmp,            \* the file at tmp_path, inside the temporary directory
    tempdir,        \* whether the temporary directory exists
    compression,    \* local: the result of get_compression
    member_index,   \* local: position of "for member in tar"
    tar_pc,         \* the statement the call is at
    tar_exc,        \* the exception the call raised, "none" if none
    io_fault        \* whether the environment made an I/O operation fail

tarVars == <<data_bytes, file_name, tar_file_path, replace, archive, original,
             tmp, tempdir, compression, member_index, tar_pc, tar_exc,
             io_fault>>

\* The state of the plugin instance and of the project directory.
VARIABLES
    pyproject,   \* the [tool.poetry-plugin-package-info] table of the project
    plugin,      \* the attributes of the PackageInfoApplicationPlugin instance
    disk,        \* the generated source files of the project directory
    dist_dir,    \* whether the directory of the build artifacts exists
    wheel_file,  \* the wheel (zip) artifact
    sdist_file,  \* the sdist (tar.gz) artifact
    last,        \* the last call the host made, and what came of it
    clock        \* the position of the wall clock in Instants

plugVars ==
    <<pyproject, plugin, disk, dist_dir, wheel_file, sdist_file, last, clock>>

\* The Python process, and the functions of the module applied in it to
\* arguments of their own.
VARIABLES
    hash_seed,   \* the order sets of module names iterate in, in this process
    applied      \* the function applied: [fn, args, result, done]

fnVars == <<hash_seed, applied>>

vars == <<tarVars, plugVars, fnVars>>

\* The name the plugin patches in, and another name of the archive.
PackageInfoName == "demo/package_info.py"
OtherName == "demo/__init__.py"
EntryNames == {PackageInfoName, OtherName}
Mtimes == {1, 2}
Contents == {<<1>>, <<2>>, <<1, 2>>}
Members ==
    {[name |-> n, mtime |-> m, size |-> Len(c), content |-> c] :
        n \in EntryNames, m \in Mtimes, c \in Contents}
DataBytes == {<<7>>, <<7, 8>>}
TarFileNames ==
    { <<"a", Dot, "tar", Dot, "gz">>,
      <<"a", Dot, "tar", Dot, "bz2">>,
      <<"a", Dot, "tar", Dot, "xz">>,
      <<"a", Dot, "tar">>,
      <<"a", Dot, "tgz">>,
      <<"demo-1", Dot, "2", Dot, "3", Dot, "tar", Dot, "gz">>,
      <<"demo-1", Dot, "2", Dot, "3", Dot, "tar">> }

TarIdle ==
    /\ data_bytes = <<>>
    /\ file_name = PackageInfoName
    /\ tar_file_path = <<>>
    /\ replace = TRUE
    /\ archive = NoFile
    /\ original = NoFile
    /\ tmp = NoFile
    /\ tempdir = FALSE
    /\ compression = <<>>
    /\ member_index = 0
    /\ tar_pc = "idle"
    /\ tar_exc = "none"
    /\ io_fault = FALSE

\* A call of append_tar_file about to start, for every argument and every
\* archive (or none) at the path.
InitTarCall ==
    /\ data_bytes \in DataBytes
    /\ file_name = PackageInfoName
    /\ tar_file_path \in TarFileNames
    /\ replace \in BOOLEAN
    /\ archive \in {NoFile} \cup
                   {ArchiveFile(es) : es \in SeqsUpTo(Members, MaxEntries)}
    /\ original = archive
    /\ tmp = NoFile
    /\ tempdir = FALSE
    /\ compression = <<>>
    /\ member_index = 0
    /\ tar_pc = "is_file"
    /\ tar_exc = "none"
    /\ io_fault = FALSE

\* Leaving the "with" blocks by an exception or a return: the temporary
\* directory is removed with everything in it, the archive is not touched.
Unwind(exc) ==
    /\ tmp' = NoFile
    /\ tempdir' = FALSE
    /\ tar_exc' = exc
    /\ tar_pc' = "done"

\* if not Path(tar_file_path).is_file(): return
IsFile ==
    /\ UNCHANGED <<plugVars, fnVars>>
    /\ tar_pc = "is_file"
    /\ tar_pc' = IF archive.exists THEN "get_compression" ELSE "done"
    /\ UNCHANGED <<data_bytes, file_name, tar_file_path, replace, archive,
                   original, tmp, tempdir, compression, member_index,
                   tar_exc, io_fault>>

\* compression = get_compression(tar_file_path)
GetCompression ==
    /\ UNCHANGED <<plugVars, fnVars>>
    /\ tar_pc = "get_compression"
    /\ LET r == get_compression(tar_file_path)
       IN  IF r.exc # "none"
           THEN /\ tar_exc' = r.exc
                /\ tar_pc' = "done"
                /\ UNCHANGED compression
           ELSE /\ compression' = r.value
                /\ tar_pc' = "mkdtemp"
                /\ UNCHANGED tar_exc
    /\ UNCHANGED <<data_bytes, file_name, tar_file_path, replace, archive,
                   original, tmp, tempdir, member_index, io_fault>>

\* with tempfile.TemporaryDirectory() as _tempdir
MakeTempDir ==
    /\ UNCHANGED <<plugVars, fnVars>>
    /\ tar_pc = "mkdtemp"
    /\ tempdir' = TRUE
    /\ tar_pc' = "open_tar"
    /\ UNCHANGED <<data_bytes, file_name, tar_file_path, replace, archive,
                   original, tmp, compression, member_index, tar_exc,
                   io_fault>>

\* with tarfile.open(tar_file_path, "r:" + compression) as tar
OpenTar ==
    /\ UNCHANGED <<plugVars, fnVars>>
    /\ tar_pc = "open_tar"
    /\ tar_pc' = "check_replace"
    /\ UNCHANGED <<data_bytes, file_name, tar_file_path, replace, archive,
                   original, tmp, tempdir, compression, member_index,
                   tar_exc, io_fault>>

\* if not replace and file_name in (member.name for member in tar): return
CheckReplace ==
    /\ UNCHANGED <<plugVars, fnVars>>
    /\ tar_pc = "check_replace"
    /\ IF ~replace /\ file_name \in NamesOf(archive.entries)
       THEN Unwind("none")
       ELSE /\ tar_pc' = "open_tmp"
            /\ UNCHANGED <<tmp, tempdir, tar_exc>>
    /\ UNCHANGED <<data_bytes, file_name, tar_file_path, replace, archive,
                   original, compression, member_index, io_fault>>

\* with tarfile.open(tmp_path, "w:" + compression) as tmp
OpenTmp ==
    /\ UNCHANGED <<plugVars, fnVars>>
    /\ tar_pc = "open_tmp"
    /\ tmp' = [exists |-> TRUE, entries |-> <<>>, complete |-> FALSE]
    /\ member_index' = 1
    /\ tar_pc' = "copy"
    /\ UNCHANGED <<data_bytes, file_name, tar_file_path, replace, archive,
                   original, tempdir, compression, tar_exc, io_fault>>

\* The entry the loop body writes for member: its own header, and its size
\* in bytes of what tar.extractfile(member.name) returns.
CopiedMember(entries, member) == addfile(member, extractfile(entries, member))

\* One pass of: for member in tar:
\*                  if member.name != file_name:
\*                      tmp.addfile(member, tar.extractfile(member.name))
CopyMember ==
    /\ UNCHANGED <<plugVars, fnVars>>
    /\ tar_pc = "copy"
    /\ member_index <= Len(archive.entries)
    /\ LET member == archive.entries[member_index]
       IN  IF member.name = file_name
           THEN /\ member_index' = member_index + 1
                /\ UNCHANGED <<tmp, tempdir, tar_exc, tar_pc>>
           ELSE IF addfile_ok(member, extractfile(archive.entries, member))
           THEN /\ tmp' = [tmp EXCEPT !.entries =
                              Append(@, CopiedMember(archive.entries, member))]
                /\ member_index' = member_index + 1
                /\ UNCHANGED <<tempdir, tar_exc, tar_pc>>
           ELSE /\ Unwind("OSError")
                /\ UNCHANGED member_index
    /\ UNCHANGED <<data_bytes, file_name, tar_file_path, replace, archive,
                   original, compression, io_fault>>

\* tmp.addfile(tarinfo, fileobj), after the loop
AddNewEntry ==
    /\ UNCHANGED <<plugVars, fnVars>>
    /\ tar_pc = "copy"
    /\ member_index > Len(archive.entries)
    /\ tmp' = [tmp EXCEPT !.entries = Append(@, TarInfo(file_name, data_bytes))]
    /\ tar_pc' = "close_tmp"
    /\ UNCHANGED <<data_bytes, file_name, tar_file_path, replace, archive,
                   original, tempdir, compression, member_index, tar_exc,
                   io_fault>>

\* The rename reached while tmp is still open: its end is not written.
CloseTmp_unfinished ==
    /\ UNCHANGED <<plugVars, fnVars>>
    /\ tar_pc = "close_tmp"
    /\ tar_pc' = "close_tar"
    /\ UNCHANGED <<data_bytes, file_name, tar_file_path, replace, archive,
                   original, tmp, tempdir, compression, member_index,
                   tar_exc, io_fault>>

\* Leaving "with ... as tmp": the end of the archive is written, the file
\* closed.
CloseTmp ==
    /\ UNCHANGED <<plugVars, fnVars>>
    /\ tar_pc = "close_tmp"
    /\ tmp' = [tmp EXCEPT !.complete = TRUE]
    /\ tar_pc' = "close_tar"
    /\ UNCHANGED <<data_bytes, file_name, tar_file_path, replace, archive,
                   original, tempdir, compression, member_index, tar_exc,
                   io_fault>>

\* Leaving "with ... as tar"
CloseTar ==
    /\ UNCHANGED <<plugVars, fnVars>>
    /\ tar_pc = "close_tar"
    /\ tar_pc' = "rename"
    /\ UNCHANGED <<data_bytes, file_name, tar_file_path, replace, archive,
                   original, tmp, tempdir, compression, member_index,
                   tar_exc, io_fault>>

\* tmp_path.rename(tar_file_path)
Rename ==
    /\ UNCHANGED <<plugVars, fnVars>>
    /\ tar_pc = "rename"
    /\ archive' = tmp
    /\ tmp' = NoFile
    /\ tar_pc' = "cleanup"
    /\ UNCHANGED <<data_bytes, file_name, tar_file_path, replace, original,
                   tempdir, compression, member_index, tar_exc, io_fault>>

\* Leaving "with tempfile.TemporaryDirectory()"
Cleanup ==
    /\ UNCHANGED <<plugVars, fnVars>>
    /\ tar_pc = "cleanup"
    /\ tempdir' = FALSE
    /\ tmp' = NoFile
    /\ tar_pc' = "done"
    /\ UNCHANGED <<data_bytes, file_name, tar_file_path, replace, archive,
                   original, compression, member_index, tar_exc, io_fault>>

\* The statements that do I/O inside the temporary directory's scope.
IOSteps == {"open_tar", "check_replace", "open_tmp", "copy", "close_tmp",
            "rename"}

\* The operating system fails the I/O operation of the current statement
\* (disk full, read error, rename across devices): OSError propagates
\* through the "with" blocks.
IOFault ==
    /\ UNCHANGED <<plugVars, fnVars>>
    /\ tar_pc \in IOSteps
    /\ io_fault' = TRUE
    /\ Unwind("OSError")
    /\ UNCHANGED <<data_bytes, file_name, tar_file_path, replace, archive,
                   original, compression, member_index>>

\* The process is interrupted between two statements and nothing more runs.
Interrupt ==
    /\ UNCHANGED <<plugVars, fnVars>>
    /\ tar_pc \notin {"idle", "done", "killed"}
    /\ tar_pc' = "killed"
    /\ UNCHANGED <<data_bytes, file_name, tar_file_path, replace, archive,
                   original, tmp, tempdir, compression, member_index,
                   tar_exc, io_fault>>

\* Everything append_tar_file does, start to end, when no I/O fault and no
\* interruption occurs: [exc, file], file being the file at tar_file_path
\* afterwards.
RECURSIVE CopyMembers(_, _, _)
\* The loop over the members from position i on: [ok, entries written].
CopyMembers(entries, name, i) ==
    IF i > Len(entries) THEN [ok |-> TRUE, entries |-> <<>>]
    ELSE LET member == entries[i]
             rest   == CopyMembers(entries, name, i + 1)
         IN  IF member.name = name THEN rest
             ELSE IF ~addfile_ok(member, extractfile(entries, member))
             THEN [ok |-> FALSE, entries |-> <<>>]
             ELSE [ok |-> rest.ok,
                   entries |-> <<CopiedMember(entries, member)>>
                               \o rest.entries]

append_tar_file(data, name, path, file, repl) ==
    IF ~file.exists THEN [exc |-> "none", file |-> file]
    ELSE IF get_compression(path).exc # "none"
    THEN [exc |-> get_compression(path).exc, file |-> file]
    ELSE IF ~repl /\ name \in NamesOf(file.entries)
    THEN [exc |-> "none", file |-> file]
    ELSE LET copied == CopyMembers(file.entries, name, 1)
         IN  IF ~copied.ok THEN [exc |-> "OSError", file |-> file]
             ELSE [exc |-> "none",
                   file |-> ArchiveFile(Append(copied.entries,
                                               TarInfo(name, data)))]


\* --------------------------------------------------- configuration values
\* A TOML key that may be missing: Absent, or Some(value).
Absent == <<>>
Some(v) == <<v>>

\* ContainerWrapper.get_or_default
get_or_default(value, default) == IF value = Absent THEN default ELSE value[1]

\* Strings the code splits or rewrites are token sequences; "-" and "_" are
\* tokens of their own.
Dash == "-"
Underscore == "_"

\* A split at the last "-" instead of the first.
split_dash_last(text) ==
    IF \A i \in 1..Len(text) : text[i] # Dash THEN <<text>>
    ELSE LET d == CHOOSE i \in 1..Len(text) :
                     /\ text[i] = Dash
                     /\ \A j \in (i + 1)..Len(text) : text[j] # Dash
         IN  <<SubSeq(text, 1, d - 1), SubSeq(text, d + 1, Len(text))>>

\* item.split("-", maxsplit=1): one piece when there is no "-", else the
\* text before the first "-" and the whole text after it.
split_dash_once(text) ==
    IF \A i \in 1..Len(text) : text[i] # Dash THEN <<text>>
    ELSE LET d == CHOOSE i \in 1..Len(text) :
                     /\ text[i] = Dash
                     /\ \A j \in 1..(i - 1) : text[j] # Dash
         IN  <<SubSeq(text, 1, d - 1), SubSeq(text, d + 1, Len(text))>>

\* A property name taken as it is.
keep_dash(text) == text

\* property_name.replace("-", "_")
replace_dash(text) ==
    [i \in 1..Len(text) |-> IF text[i] = Dash THEN Underscore ELSE text[i]]

\* An item of the "properties" array: a string, an inline table (with the
\* keys it has) or a value of another TOML type.
StrItem(text) ==
    [kind |-> "str", text |-> text, generator |-> Absent, name |-> Absent,
     variable |-> Absent, metadata |-> Absent]
TableItem(generator, name, variable, metadata) ==
    [kind |-> "table", text |-> <<>>, generator |-> generator,
     name |-> name, variable |-> variable, metadata |-> metadata]
OtherItem ==
    [kind |-> "other", text |-> <<>>, generator |-> Absent, name |-> Absent,
     variable |-> Absent, metadata |-> Absent]

\* Backend locators of the defaults in initialise.
BlackFormatter ==
    "poetry_plugin_package_info.formatters.black:BlackContentFormatter"
GitGenerator == "poetry_plugin_package_info.generators.git:GitPropertyGenerator"
ProjectGenerator ==
    "poetry_plugin_package_info.generators.project:ProjectPropertyGenerator"
NoopFormatter == "demo_backends:NoopContentFormatter"
\* A generator of the project's own, configured under "generators".
DemoGenerator == "demo_backends:DemoPropertyGenerator"

\* PropertyGenerator.short_name() of a loaded generator instance.
short_name(instance) ==
    IF instance = GitGenerator THEN <<"git">>
    ELSE IF instance = DemoGenerator THEN <<"demo">>
    ELSE <<"project">>

DefaultGenerators ==
    << [key |-> <<"git">>, locator |-> GitGenerator],
       [key |-> <<"project">>, locator |-> ProjectGenerator] >>

DefaultProperties ==
    << StrItem(<<"project", Dash, "name">>),
       StrItem(<<"project", Dash, "description">>),
       StrItem(<<"project", Dash, "version">>),
       StrItem(<<"project", Dash, "authors">>),
       StrItem(<<"project", Dash, "license">>),
       StrItem(<<"project", Dash, "classifiers">>),
       StrItem(<<"project", Dash, "documentation">>),
       StrItem(<<"project", Dash, "repository">>),
       StrItem(<<"project", Dash, "homepage">>),
       StrItem(<<"project", Dash, "maintainers">>),
       StrItem(<<"project", Dash, "keywords">>),
       StrItem(<<"git", Dash, "commit", Dash, "id">>),
       StrItem(<<"git", Dash, "commit", Dash, "author", Dash, "name">>),
       StrItem(<<"git", Dash, "commit", Dash, "author", Dash, "email">>),
       StrItem(<<"git", Dash, "commit", Dash, "timestamp">>),
       StrItem(<<"git", Dash, "branch", Dash, "name">>),
       StrItem(<<"git", Dash, "branch", Dash, "path">>),
       StrItem(<<"git", Dash, "is", Dash, "dirty">>),
       StrItem(<<"git", Dash, "is", Dash, "dirty", Dash, "excluding", Dash,
                 "untracked">>),
       StrItem(<<"git", Dash, "has", Dash, "staged", Dash, "changes">>),
       StrItem(<<"git", Dash, "has", Dash, "unstaged", Dash, "changes">>),
       StrItem(<<"git", Dash, "has", Dash, "untracked", Dash, "changes">>) >>

DefaultTemplate == "default template"
DefaultLineSeparator == "\n"
DefaultPatchBuildFormats == [is_str |-> FALSE, str |-> "", list |-> <<>>]

\* A "patch-build-formats" value: a TOML string or a TOML array of strings.
StrValue(x) == [is_str |-> TRUE, str |-> x, list |-> <<>>]
ListValue(l) == [is_str |-> FALSE, str |-> "", list |-> l]

\* initialise, the normalisation of patch_build_formats.
patch_build_formats_of(value) ==
    IF value.is_str
    THEN IF value.str = "" THEN <<>> ELSE <<value.str>>
    ELSE value.list

\* A lookup that falls back to the first generator of the registry.
generators_get_or_first(generators, key) ==
    IF key # Absent /\ \E i \in 1..Len(generators) : generators[i].key = key[1]
    THEN Some((generators[CHOOSE i \in 1..Len(generators) :
                              generators[i].key = key[1]]).instance)
    ELSE IF generators # <<>> THEN Some(generators[1].instance)
    ELSE Absent

\* self.generators.get(key, None): Absent, or Some(instance).
generators_get(generators, key) ==
    IF key # Absent /\ \E i \in 1..Len(generators) : generators[i].key = key[1]
    THEN Some((generators[CHOOSE i \in 1..Len(generators) :
                              generators[i].key = key[1]]).instance)
    ELSE Absent

\* load_generators: one new instance per configured key.
load_generators(generators) ==
    [i \in 1..Len(generators) |->
        [key |-> generators[i].key, instance |-> generators[i].locator]]

PropertyConfig(property_generator, property_name, variable_name, metadata) ==
    [property_generator |-> property_generator,
     property_name |-> property_name,
     variable_name |-> variable_name,
     metadata |-> metadata]

\* The default of variable_name.
default_variable_name(property_generator, property_name) ==
    short_name(property_generator) \o <<Underscore>>
        \o replace_dash(property_name)

RECURSIVE parse_include_property_configs(_, _)
\* parse_include_property_configs: [exc, includes].
parse_include_property_configs(generators, property_configs) ==
    IF property_configs = <<>> THEN [exc |-> "none", includes |-> <<>>]
    ELSE
    LET item == Head(property_configs)
        rest == parse_include_property_configs(generators,
                                               Tail(property_configs))
        Cons(config) ==
            [exc |-> rest.exc,
             includes |-> IF rest.exc = "none"
                          THEN <<config>> \o rest.includes ELSE <<>>]
    IN  IF item.kind = "str"
        THEN LET pieces == split_dash_once(item.text)
                 property_generator ==
                     generators_get(generators, Some(pieces[1]))
             IN  IF Len(pieces) < 2
                 THEN [exc |-> "IndexError", includes |-> <<>>]
                 ELSE IF property_generator = Absent
                 THEN [exc |-> "ValueError", includes |-> <<>>]
                 ELSE Cons(PropertyConfig(
                          property_generator[1], pieces[2],
                          default_variable_name(property_generator[1],
                                                pieces[2]),
                          "{}"))
        ELSE IF item.kind = "table"
        THEN LET property_generator ==
                     generators_get(generators, item.generator)
             IN  IF item.name = Absent \/ property_generator = Absent
                 THEN rest
                 ELSE Cons(PropertyConfig(
                          property_generator[1], item.name[1],
                          IF item.variable # Absent THEN item.variable[1]
                          ELSE default_variable_name(property_generator[1],
                                                     item.name[1]),
                          get_or_default(item.metadata, "{}")))
        ELSE rest

\* ---------------------------------------------------------- Python values
\* A text is a sequence of tokens: the characters of a string are tokens of
\* their own, a word the code writes as a whole (None, True, a type name,
\* the separators ", " and " | ") is one token.
Quote == "\""
Apostrophe == "'"
Backslash == "\\"
Newline == "\n"
Letter == "n"

\* The values a property can have: None, a str, a bool, an int, a list of
\* str, a datetime.
PyNone == [kind |-> "None", text |-> <<>>, num |-> 0, items |-> <<>>]
PyStr(chars) == [kind |-> "str", text |-> chars, num |-> 0, items |-> <<>>]
PyBool(b) ==
    [kind |-> "bool", text |-> <<>>, num |-> IF b THEN 1 ELSE 0,
     items |-> <<>>]
PyInt(n) == [kind |-> "int", text |-> <<>>, num |-> n, items |-> <<>>]
PyList(strings) ==
    [kind |-> "list", text |-> <<>>, num |-> 0, items |-> strings]
PyDatetime(isoformat) ==
    [kind |-> "datetime", text |-> <<isoformat>>, num |-> 0, items |-> <<>>]

\* Type objects: a class, a parameterised generic such as list[str]
\* (types.GenericAlias, whose __module__ and __name__ are those of its
\* origin) and a union X | Y (types.UnionType, of module "types").
\* "datetime" is issubclass(cls, datetime).
Class(module, name, is_datetime) ==
    [kind |-> "class", module |-> module, name |-> name,
     datetime |-> is_datetime, args |-> <<>>]
GenericAlias(origin, args) ==
    [kind |-> "alias", module |-> origin.module, name |-> origin.name,
     datetime |-> FALSE, args |-> args]
UnionType(args) ==
    [kind |-> "union", module |-> "types", name |-> "UnionType",
     datetime |-> FALSE, args |-> args]

StrClass == Class("builtins", "str", FALSE)
BoolClass == Class("builtins", "bool", FALSE)
ListClass == Class("builtins", "list", FALSE)
NoneType == Class("builtins", "NoneType", FALSE)
DatetimeClass == Class("datetime", "datetime", TRUE)
\* The class datetime.datetime is replaced by while freezegun is active.
FakeDatetime == Class("freezegun.api", "FakeDatetime", TRUE)
PathClass == Class("pathlib", "Path", FALSE)

\* isinstance(value, type): true of classes, false of list[str] and X | Y.
is_type(value) == value.kind = "class"

\* typing.get_args(cls)
get_args(cls) == cls.args

RECURSIVE Join(_, _)
\* sep.join(texts)
Join(texts, sep) ==
    IF texts = <<>> THEN <<>>
    ELSE IF Len(texts) = 1 THEN texts[1]
    ELSE texts[1] \o sep \o Join(Tail(texts), sep)

RECURSIVE type_repr(_)
\* repr of a type object inside the repr of a generic (typing._type_repr):
\* the bare name for a class of builtins, module.name for another class.
type_repr(value) ==
    IF value.kind = "class"
    THEN IF value.module = "builtins"
         THEN <<IF value.name = "NoneType" THEN "None" ELSE value.name>>
         ELSE <<value.module \o "." \o value.name>>
    ELSE IF value.kind = "alias"
    THEN <<value.name, "[">>
         \o Join([i \in 1..Len(value.args) |-> type_repr(value.args[i])],
                 <<", ">>)
         \o <<"]">>
    ELSE Join([i \in 1..Len(value.args) |-> type_repr(value.args[i])],
              <<" | ">>)

\* type_as_python: [exc, text]. The last return reads
\* value.__name__.__module__, an attribute a str does not have.
type_as_python(value) ==
    IF value.module = "builtins" /\ value.name = "NoneType"
    THEN [exc |-> "none", text |-> <<"None">>]
    ELSE IF value.module = "builtins"
            /\ value.name \in {"str", "int", "float", "bool"}
    THEN [exc |-> "none", text |-> <<value.name>>]
    ELSE IF Len(get_args(value)) > 0
    THEN [exc |-> "none", text |-> type_repr(value)]
    ELSE IF value.datetime
    THEN [exc |-> "none", text |-> <<"datetime.datetime">>]
    ELSE [exc |-> "AttributeError", text |-> <<>>]

RECURSIVE DecimalDigits(_)
\* The decimal digits of n >= 0.
DecimalDigits(n) ==
    LET digit == <<"0", "1", "2", "3", "4", "5", "6", "7", "8", "9">>
    IN  IF n < 10 THEN <<digit[n + 1]>>
        ELSE Append(DecimalDigits(n \div 10), digit[(n % 10) + 1])

\* repr(str) for a str without an apostrophe: single quotes, a backslash
\* doubled and a line break written \n.
str_repr(chars) ==
    LET escaped(c) == IF c = Backslash THEN <<Backslash, Backslash>>
                      ELSE IF c = Newline THEN <<Backslash, Letter>>
                      ELSE <<c>>
    IN  <<Apostrophe>>
        \o Join([i \in 1..Len(chars) |-> escaped(chars[i])], <<>>)
        \o <<Apostrophe>>

\* str(value), the last return of as_python.
str_of(value) ==
    IF value.kind = "bool"
    THEN <<IF value.num = 1 THEN "True" ELSE "False">>
    ELSE IF value.kind = "int"
    THEN IF value.num < 0 THEN <<"-">> \o DecimalDigits(0 - value.num)
         ELSE DecimalDigits(value.num)
    ELSE IF value.kind = "list"
    THEN <<"[">>
         \o Join([i \in 1..Len(value.items) |-> str_repr(value.items[i])],
                 <<", ">>)
         \o <<"]">>
    ELSE type_repr(value)

RECURSIVE as_python(_)
\* as_python: [exc, text]
as_python(value) ==
    IF value.kind = "None" THEN [exc |-> "none", text |-> <<"None">>]
    ELSE IF value.kind = "union"
    THEN LET parts == [i \in 1..Len(value.args) |->
                          as_python(value.args[i])]
         IN  IF \E i \in 1..Len(parts) : parts[i].exc # "none"
             THEN [exc |-> "AttributeError", text |-> <<>>]
             ELSE [exc |-> "none",
                   text |-> Join([i \in 1..Len(parts) |-> parts[i].text],
                                 <<" | ">>)]
    ELSE IF is_type(value) THEN type_as_python(value)
    ELSE IF value.kind = "str"
    THEN [exc |-> "none", text |-> <<Quote>> \o value.text \o <<Quote>>]
    ELSE IF value.kind = "datetime"
    THEN [exc |-> "none",
          text |-> <<"datetime.datetime.fromisoformat(", Quote>>
                   \o value.text \o <<Quote, ")">>]
    ELSE [exc |-> "none", text |-> str_of(value)]

\* ------------------------------------------------------ required imports
RECURSIVE types_in(_)
\* types_in: cls and, recursively, its type arguments.
types_in(cls) ==
    LET RECURSIVE of_args(_)
        of_args(args) ==
            IF args = <<>> THEN <<>>
            ELSE types_in(Head(args)) \o of_args(Tail(args))
    IN  <<cls>> \o of_args(get_args(cls))

\* A generated property.
Property(property_config, property_value, property_type, metadata) ==
    [property_config |-> property_config, property_value |-> property_value,
     property_type |-> property_type, metadata |-> metadata]

\* The modules of the property types themselves, their type arguments left
\* out.
get_imports_of_outer_types(properties) ==
    LET all == {properties[i].property_type : i \in 1..Len(properties)}
    IN  {"datetime" : cls \in {c \in all : is_type(c) /\ c.datetime}}
        \cup {cls.module :
                 cls \in {c \in all : /\ ~(is_type(c) /\ c.datetime)
                                      /\ c.module # "builtins"
                                      /\ c.kind # "union"}}

\* get_imports_from_properties: the set of module names.
get_imports_from_properties(properties) ==
    LET types == [i \in 1..Len(properties) |->
                     types_in(properties[i].property_type)]
        all == UNION {{types[i][j] : j \in 1..Len(types[i])} :
                         i \in 1..Len(properties)}
    IN  {"datetime" : cls \in {c \in all : is_type(c) /\ c.datetime}}
        \cup {cls.module :
                 cls \in {c \in all : /\ ~(is_type(c) /\ c.datetime)
                                      /\ c.module # "builtins"
                                      /\ c.kind # "union"}}

\* ------------------------------------------------------------- rendering
\* Environment(): jinja2 turns every line break of a template into its
\* newline_sequence, "\n" unless the environment is given another.
NewlineSequence == "\n"

\* Generated text is a sequence of lines; a line is [kind, arg, end]: what
\* the line is, the texts it carries and the characters that end it.
Line(kind, arg) == [kind |-> kind, arg |-> arg, end |-> NewlineSequence]

\* PropertyGenerator.generate_property of the loaded generators: the type
\* and the value each generator resolves a property name to.
generate_property(include) ==
    LET generator == include.property_generator
        name == include.property_name
        of(property_value, property_type) ==
            Property(include, property_value, property_type,
                     include.metadata)
    IN  IF generator = DemoGenerator
        THEN IF name = <<"paths">>
             THEN of(PyList(<<>>), GenericAlias(ListClass, <<PathClass>>))
             ELSE IF name = <<"built">>
             THEN of(PyDatetime("2023-06-09T01:23:45"), DatetimeClass)
             ELSE IF name = <<"frozen">>
             THEN of(PyDatetime("2023-06-09T01:23:45"), FakeDatetime)
             ELSE IF name = <<"root">>
             THEN of(PyNone, UnionType(<<PathClass, NoneType>>))
             ELSE of(PyStr(name), StrClass)
        ELSE IF generator = GitGenerator
        THEN IF name = <<"commit", Dash, "timestamp">>
             THEN of(PyDatetime("2023-06-09T01:23:45"), DatetimeClass)
             ELSE IF name # <<>> /\ Head(name) \in {"is", "has"}
             THEN of(PyBool(FALSE), BoolClass)
             ELSE of(PyNone, UnionType(<<StrClass, NoneType>>))
        ELSE IF name \in {<<"authors">>, <<"classifiers">>,
                          <<"maintainers">>, <<"keywords">>}
             THEN of(PyList(<<>>), GenericAlias(ListClass, <<StrClass>>))
             ELSE IF name \in {<<"name">>, <<"version">>}
             THEN of(PyStr(name), StrClass)
             ELSE of(PyNone, UnionType(<<StrClass, NoneType>>))

\* The modules a generated file can import, and the orders a set of module
\* names can iterate in: the order follows the hashes of the names, which
\* every Python process salts anew (hash randomisation).
ImportableModules == {"datetime", "pathlib"}
HashSeeds ==
    {seed \in [1..Cardinality(ImportableModules) -> ImportableModules] :
        \A i, j \in DOMAIN seed : i # j => seed[i] # seed[j]}

\* "for import in imports": the elements of the set in the order of the
\* process.
iterate(imports, seed) == SelectSeq(seed, LAMBDA module : module \in imports)

\* template.render(properties=..., imports=...): [exc, text]. The first
\* line carries now(), then one line per import, the class line and one
\* field line per property with as_python of its type and of its value.
render(template, properties, imports, now) ==
    LET type_texts == [i \in 1..Len(properties) |->
                          as_python(properties[i].property_type)]
        value_texts == [i \in 1..Len(properties) |->
                           as_python(properties[i].property_value)]
        type_text(i) == type_texts[i]
        value_text(i) == value_texts[i]
    IN  IF \E i \in 1..Len(properties) :
               type_text(i).exc # "none" \/ value_text(i).exc # "none"
        THEN [exc |-> "AttributeError", text |-> <<>>]
        ELSE [exc |-> "none",
              text |->
                  <<Line(template, <<<<now>>>>)>>
                  \o [i \in 1..Len(imports) |->
                         Line("import", <<<<imports[i]>>>>)]
                  \o <<Line("class PackageInfo:", <<>>)>>
                  \o [i \in 1..Len(properties) |->
                         Line("field",
                              <<properties[i].property_config.variable_name,
                                type_text(i).text, value_text(i).text>>)]]

\* formatter.format_content(content): the text as laid out by that formatter.
format_content(formatter, content) ==
    <<Line("formatted by", <<<<formatter>>>>)>> \o content


\* ------------------------------------------------------ plugin operations

\* Largest number of entries of the wheel for which the host still builds.
MaxZipEntries == 3

ProjectDir == "/project"
CustomPath == "demo/_info.py"
OutputPaths == {PackageInfoName, CustomPath}
\* The instants datetime.now() returns, in their order.
Instants == <<"2023-06-09T01:23:45", "2023-06-09T01:23:46">>

\* The name of the sdist: f"{dist_name}-{version}.tar.gz"
SdistFileName ==
    <<"demo-0", Dot, "1", Dot, "0", Dot, "tar", Dot, "gz">>

\* The attributes before initialise has assigned them.
NewPlugin ==
    [initialized |-> FALSE,
     patch_build_formats |-> Absent,
     package_info_relative_file_path |-> Absent,
     package_info_absolute_file_path |-> Absent,
     formatter |-> Absent,
     template |-> Absent,
     line_separator |-> Absent,
     generators |-> Absent,
     property_configs |-> Absent]

\* initialise without the "if self.initialized: return" guard.
initialise_always(self, table, fault) ==
    LET relative == get_or_default(table.package_info_file_path,
                                   PackageInfoName)
        generators == load_generators(
                          get_or_default(table.generators, DefaultGenerators))
        parsed == parse_include_property_configs(
                      generators,
                      get_or_default(table.properties, DefaultProperties))
        self2 == [self EXCEPT
                    !.patch_build_formats =
                        Some(patch_build_formats_of(
                            get_or_default(table.patch_build_formats,
                                           DefaultPatchBuildFormats))),
                    !.package_info_relative_file_path = Some(relative),
                    !.package_info_absolute_file_path =
                        Some(<<ProjectDir, relative>>),
                    !.formatter =
                        Some(get_or_default(table.formatter, BlackFormatter)),
                    !.template =
                        Some(get_or_default(table.template, DefaultTemplate)),
                    !.line_separator =
                        Some(get_or_default(table.line_separator,
                                            DefaultLineSeparator)),
                    !.generators = Some(generators)]
    IN  IF parsed.exc # "none"
        THEN [plugin |-> self2, exc |-> parsed.exc,
              constructed |-> 1 + Len(generators)]
        ELSE [plugin |-> [self2 EXCEPT
                              !.property_configs = Some(parsed.includes),
                              !.initialized = TRUE],
              exc |-> "none",
              constructed |-> 1 + Len(generators)]

\* What the environment can make fail during a call.
Faults == {"none", "generate_property", "format_content"}

\* initialise: [plugin, exc, constructed], constructed being the number of
\* backends new_instance has constructed and initialised.
initialise(self, table, fault) ==
    IF self.initialized
    THEN [plugin |-> self, exc |-> "none", constructed |-> 0]
    ELSE
    LET relative == get_or_default(table.package_info_file_path,
                                   PackageInfoName)
        self1 == [self EXCEPT
                    !.patch_build_formats =
                        Some(patch_build_formats_of(
                            get_or_default(table.patch_build_formats,
                                           DefaultPatchBuildFormats))),
                    !.package_info_relative_file_path = Some(relative),
                    !.package_info_absolute_file_path =
                        Some(<<ProjectDir, relative>>),
                    !.formatter =
                        Some(get_or_default(table.formatter, BlackFormatter)),
                    !.template =
                        Some(get_or_default(table.template, DefaultTemplate)),
                    !.line_separator =
                        Some(get_or_default(table.line_separator,
                                            DefaultLineSeparator))]
        generators == load_generators(
                          get_or_default(table.generators, DefaultGenerators))
        self2 == [self1 EXCEPT !.generators = Some(generators)]
        parsed == parse_include_property_configs(
                      generators,
                      get_or_default(table.properties, DefaultProperties))
    IN  IF parsed.exc # "none"
        THEN [plugin |-> self2, exc |-> parsed.exc,
              constructed |-> 1 + Len(generators)]
        ELSE [plugin |-> [self2 EXCEPT
                              !.property_configs = Some(parsed.includes),
                              !.initialized = TRUE],
              exc |-> "none",
              constructed |-> 1 + Len(generators)]

\* write_package_info_py: [exc, raised_in, text], text being what is written
\* to the stream.
write_package_info_py(self, now, seed, fault) ==
    LET property_configs == self.property_configs[1]
        properties == [i \in 1..Len(property_configs) |->
                          generate_property(property_configs[i])]
        imports == get_imports_from_properties(properties)
        rendered == render(self.template[1], properties,
                           iterate(imports, seed), now)
    IN  IF fault = "generate_property" /\ property_configs # <<>>
        THEN [exc |-> "GeneratorError", raised_in |-> "generate_property",
              text |-> <<>>]
        ELSE IF rendered.exc # "none"
        THEN [exc |-> rendered.exc, raised_in |-> "render", text |-> <<>>]
        ELSE IF fault = "format_content"
        THEN [exc |-> "FormatterError", raised_in |-> "format_content",
              text |-> <<>>]
        ELSE [exc |-> "none", raised_in |-> "none",
              text |-> format_content(self.formatter[1], rendered.text)]

\* The outcome of a call: the state it leaves and what it reports.
Outcome(self, files, wheel, sdist, exc, raised_in, wrote, patched, ret, built) ==
    [plugin |-> self, disk |-> files, wheel_file |-> wheel,
     sdist_file |-> sdist, exc |-> exc, raised_in |-> raised_in,
     wrote |-> wrote, patched |-> patched, ret |-> ret,
     constructed |-> built, error_lines |-> 0]

\* generate_package_info
generate_package_info(self, table, files, wheel, sdist, now, seed, fault) ==
    LET init == initialise(self, table, fault)
        path == init.plugin.package_info_relative_file_path[1]
        written == write_package_info_py(init.plugin, now, seed, fault)
    IN  IF init.exc # "none"
        THEN Outcome(init.plugin, files, wheel, sdist, init.exc, "initialise",
                     {}, {}, Absent, init.constructed)
        ELSE IF written.exc # "none"
        \* open(path, "w") has emptied the file
        THEN Outcome(init.plugin, [files EXCEPT ![path] = Some(<<>>)],
                     wheel, sdist, written.exc, written.raised_in,
                     {}, {}, Absent, init.constructed)
        ELSE Outcome(init.plugin, [files EXCEPT ![path] = Some(written.text)],
                     wheel, sdist, "none", "none", {path}, {}, Some(0),
                     init.constructed)

\* An except clause that logs and returns a status code instead of "raise".
log_and_swallow(outcome) ==
    IF outcome.exc # "none"
    THEN [outcome EXCEPT !.error_lines = 1, !.exc = "none", !.ret = Some(1)]
    ELSE outcome

\* The except clause of handle and of try_on_terminate: one error line, then
\* "raise".
log_and_reraise(outcome) ==
    IF outcome.exc # "none"
    THEN [outcome EXCEPT !.error_lines = 1]
    ELSE outcome

\* GenerateFilePackageInfoCommand.handle
handle(self, table, files, wheel, sdist, now, seed, fault) ==
    log_and_reraise(
        generate_package_info(self, table, files, wheel, sdist, now, seed,
                              fault))

\* Builder._formats of poetry-core, in its order.
BuilderFormats == <<"sdist", "wheel">>

\* get_builder_types: [exc, types]
get_builder_types(format_option) ==
    LET fmt == get_or_default(format_option, "all")
    IN  IF \E i \in 1..Len(BuilderFormats) : BuilderFormats[i] = fmt
        THEN [exc |-> "none", types |-> <<fmt>>]
        ELSE IF fmt = "all"
        THEN [exc |-> "none", types |-> BuilderFormats]
        ELSE [exc |-> "ValueError", types |-> <<>>]

\* A zip patch that drops the entries of the same name before it appends.
zip_append_dedup(file, dir_exists, name, data) ==
    IF ~file.exists /\ ~dir_exists
    THEN [exc |-> "FileNotFoundError", file |-> file]
    ELSE [exc |-> "none",
          file |-> ArchiveFile(Append(SelectNot(file.entries, name),
                                      [name |-> name, content |-> data]))]

\* zipfile.ZipFile(wheel_file, mode="a") and writestr(name, data):
\* [exc, file]. A missing file is created when its directory exists.
zip_append(file, dir_exists, name, data) ==
    IF ~file.exists /\ ~dir_exists
    THEN [exc |-> "FileNotFoundError", file |-> file]
    ELSE [exc |-> "none",
          file |-> ArchiveFile(Append(file.entries,
                                      [name |-> name, content |-> data]))]

\* The condition without "or format_all".
patches_format_listed(builder_format, patch_build_formats) ==
    \E i \in 1..Len(patch_build_formats) :
        patch_build_formats[i] = builder_format

\* The condition of both patching branches of handle_builder_type.
patches_format(builder_format, patch_build_formats) ==
    LET format_all == \E i \in 1..Len(patch_build_formats) :
                          patch_build_formats[i] = "all"
    IN  \/ \E i \in 1..Len(patch_build_formats) :
               patch_build_formats[i] = builder_format
        \/ format_all

\* update_wheel
update_wheel(o, dir_exists, now, seed, fault) ==
    LET written == write_package_info_py(o.plugin, now, seed, fault)
        zipped == zip_append(o.wheel_file, dir_exists,
                             o.plugin.package_info_relative_file_path[1],
                             written.text)
    IN  IF written.exc # "none"
        THEN [o EXCEPT !.exc = written.exc, !.raised_in = written.raised_in]
        ELSE IF zipped.exc # "none"
        THEN [o EXCEPT !.exc = zipped.exc, !.raised_in = "update_wheel"]
        ELSE [o EXCEPT !.wheel_file = zipped.file,
                       !.patched = @ \cup {"wheel"}]

\* update_sdist
update_sdist(o, now, seed, fault) ==
    LET written == write_package_info_py(o.plugin, now, seed, fault)
        appended == append_tar_file(
                        written.text,
                        o.plugin.package_info_relative_file_path[1],
                        SdistFileName, o.sdist_file, TRUE)
    IN  IF written.exc # "none"
        THEN [o EXCEPT !.exc = written.exc, !.raised_in = written.raised_in]
        ELSE IF appended.exc # "none"
        THEN [o EXCEPT !.exc = appended.exc, !.raised_in = "update_sdist"]
        ELSE [o EXCEPT !.sdist_file = appended.file,
                       !.patched = @ \cup {"sdist"}]

\* handle_builder_type
handle_builder_type(o, builder_type, dir_exists, now, seed, fault) ==
    IF builder_type = "wheel"
       /\ patches_format("wheel", o.plugin.patch_build_formats[1])
    THEN update_wheel(o, dir_exists, now, seed, fault)
    ELSE IF builder_type = "sdist"
            /\ patches_format("sdist", o.plugin.patch_build_formats[1])
    THEN update_sdist(o, now, seed, fault)
    ELSE o

RECURSIVE handle_builder_types(_, _, _, _, _, _)
\* for builder_type in ...: self.handle_builder_type(builder_type, out)
handle_builder_types(o, types, dir_exists, now, seed, fault) ==
    IF types = <<>> \/ o.exc # "none" THEN o
    ELSE handle_builder_types(
             handle_builder_type(o, Head(types), dir_exists, now, seed,
                                 fault),
             Tail(types), dir_exists, now, seed, fault)

\* on_terminate
on_terminate(self, table, files, wheel, sdist, dir_exists, option, now, seed, fault) ==
    LET init == initialise(self, table, fault)
        start == Outcome(init.plugin, files, wheel, sdist, "none", "none",
                         {}, {}, Absent, init.constructed)
        types == get_builder_types(option)
    IN  IF init.exc # "none"
        THEN [start EXCEPT !.exc = init.exc, !.raised_in = "initialise"]
        ELSE IF Len(init.plugin.patch_build_formats[1]) = 0
        THEN start
        ELSE IF types.exc # "none"
        THEN [start EXCEPT !.exc = types.exc,
                           !.raised_in = "get_builder_types"]
        ELSE handle_builder_types(start, types.types, dir_exists, now, seed,
                                  fault)

\* The events the dispatcher can hand to a listener, and whether the class
\* has an "io" attribute (cleo: ConsoleEvent has, its base class Event has
\* not).
Events == {"Event", "ConsoleCommandEvent", "ConsoleTerminateEvent"}
has_io(event) == event # "Event"
Commands == {"BuildCommand", "OtherCommand"}
FormatOptions == {Absent, Some("wheel"), Some("sdist"), Some("all"),
                  Some("egg")}

\* What the dispatcher delivers: an event, the command it carries (if any)
\* and the "format" option of the command (if it has one).
Delivery(event, command, format_option) ==
    [event |-> event, command |-> command, format_option |-> format_option]
BuildDeliveries ==
    {Delivery("ConsoleTerminateEvent", "BuildCommand", f) :
        f \in FormatOptions}
Deliveries ==
    BuildDeliveries
    \cup {Delivery("Event", "none", Absent),
          Delivery("ConsoleCommandEvent", "BuildCommand", Absent),
          Delivery("ConsoleTerminateEvent", "OtherCommand", Absent)}

\* try_on_terminate
try_on_terminate(self, table, files, wheel, sdist, dir_exists, delivery, now, seed, fault) ==
    LET idle == Outcome(self, files, wheel, sdist, "none", "none", {}, {},
                        Absent, 0)
    IN  IF ~has_io(delivery.event)
        \* out = event.io, before the try
        THEN [idle EXCEPT !.exc = "AttributeError", !.raised_in = "event.io"]
        ELSE IF delivery.event # "ConsoleTerminateEvent" THEN idle
        ELSE IF delivery.command # "BuildCommand" THEN idle
        ELSE log_and_reraise(
                 on_terminate(self, table, files, wheel, sdist, dir_exists,
                              delivery.format_option, now, seed, fault))

\* ------------------------------------------------------------ the host
Table(patch, path, formatter, template, separator, generators, properties) ==
    [patch_build_formats |-> patch, package_info_file_path |-> path,
     formatter |-> formatter, template |-> template,
     line_separator |-> separator, generators |-> generators,
     properties |-> properties]

ProjectName == StrItem(<<"project", Dash, "name">>)
GitCommitId == StrItem(<<"git", Dash, "commit", Dash, "id">>)

\* The configurations of the project the runs are checked for.
PyprojectTables ==
    { Table(Absent, Absent, Absent, Absent, Absent, Absent, Absent),
      Table(Some(ListValue(<<"wheel">>)), Absent, Absent, Absent, Absent,
            Absent, Some(<<ProjectName, GitCommitId>>)),
      Table(Some(StrValue("sdist")), Some(CustomPath), Some(NoopFormatter),
            Absent, Absent,
            Some(<<[key |-> <<"proj">>, locator |-> ProjectGenerator]>>),
            Some(<<StrItem(<<"proj", Dash, "name">>)>>)),
      Table(Some(ListValue(<<"all">>)), Absent, Absent,
            Some("custom template"), Some("\r\n"), Absent,
            Some(<< TableItem(Some(<<"git">>),
                              Some(<<"commit", Dash, "id">>),
                              Some(<<"commit">>), Absent),
                    TableItem(Some(<<"git">>), Absent, Absent, Absent),
                    OtherItem >>)),
      Table(Some(StrValue("")), Absent, Absent, Absent, Absent, Absent,
            Some(<<>>)),
      Table(Absent, Absent, Absent, Absent, Absent, Absent,
            Some(<<StrItem(<<"nogen", Dash, "x">>)>>)) }

\* The table of the project after pyproject.toml was edited.
EditedTable ==
    Table(Some(ListValue(<<"wheel", "sdist">>)), Some(CustomPath), Absent,
          Absent, Absent, Absent, Some(<<GitCommitId>>))

\* Files of the project before the plugin runs.
InitPy == <<Line("source", <<<<"__init__">>>>)>>
StaleInfo == <<Line("stale", <<<<"package_info">>>>)>>
BuiltWheel == ArchiveFile(<<[name |-> OtherName, content |-> InitPy]>>)
BuiltSdist ==
    ArchiveFile(<<[name |-> OtherName, mtime |-> 1, size |-> Len(InitPy),
                   content |-> InitPy]>>)
BuiltSdistWithInfo ==
    ArchiveFile(BuiltSdist.entries
                \o <<[name |-> PackageInfoName, mtime |-> 1,
                      size |-> Len(StaleInfo), content |-> StaleInfo]>>)

NoCall ==
    [handler |-> "none", event |-> "none", command |-> "none",
     format_option |-> Absent, now |-> "none", exc |-> "none",
     raised_in |-> "none", error_lines |-> 0, ret |-> Absent, wrote |-> {},
     patched |-> {}, constructed |-> 0, seq |-> 0]

PlugIdle ==
    /\ pyproject = Table(Absent, Absent, Absent, Absent, Absent, Absent,
                         Absent)
    /\ plugin = NewPlugin
    /\ disk = [path \in OutputPaths |-> Absent]
    /\ dist_dir = FALSE
    /\ wheel_file = NoFile
    /\ sdist_file = NoFile
    /\ last = NoCall
    /\ clock = 1

\* A new plugin instance, activated, in a project directory.
InitPlug ==
    /\ pyproject \in PyprojectTables
    /\ plugin = NewPlugin
    /\ \/ /\ disk = [path \in OutputPaths |-> Absent]
          /\ dist_dir \in BOOLEAN
          /\ wheel_file = NoFile
          /\ sdist_file = NoFile
       \/ /\ disk = [path \in OutputPaths |-> Some(StaleInfo)]
          /\ dist_dir = TRUE
          /\ wheel_file = BuiltWheel
          /\ sdist_file \in {BuiltSdist, BuiltSdistWithInfo}
    /\ last = NoCall
    /\ clock = 1

Called(handler, event, command, format_option, now, o) ==
    [handler |-> handler, event |-> event, command |-> command,
     format_option |-> format_option, now |-> now, exc |-> o.exc,
     raised_in |-> o.raised_in, error_lines |-> o.error_lines,
     ret |-> o.ret, wrote |-> o.wrote, patched |-> o.patched,
     constructed |-> o.constructed, seq |-> 1 - last.seq]

Leaves(o) ==
    /\ plugin' = o.plugin
    /\ disk' = o.disk
    /\ wheel_file' = o.wheel_file
    /\ sdist_file' = o.sdist_file

\* The host runs "poetry package-info generate-file".
Handle ==
    /\ UNCHANGED <<tarVars, fnVars>>
    /\ \E fault \in Faults :
        LET now == Instants[clock]
        IN  \E o \in {handle(plugin, pyproject, disk, wheel_file, sdist_file,
                               now, hash_seed, fault)} :
                /\ Leaves(o)
                /\ last' = Called("handle", "none",
                                  "GenerateFilePackageInfoCommand", Absent,
                                  now, o)
    /\ UNCHANGED <<pyproject, dist_dir, clock>>

\* The event dispatcher calls the listener the plugin registered.
TryOnTerminate ==
    /\ UNCHANGED <<tarVars, fnVars>>
    /\ Len(wheel_file.entries) < MaxZipEntries
    /\ \E d \in Deliveries, fault \in Faults :
        \* only a build command calls a backend
        /\ d \in BuildDeliveries \/ fault = "none"
        /\ LET now == Instants[clock]
           IN  \E o \in {try_on_terminate(plugin, pyproject, disk,
                                            wheel_file, sdist_file, dist_dir,
                                            d, now, hash_seed, fault)} :
                   /\ Leaves(o)
                   /\ last' = Called("try_on_terminate", d.event, d.command,
                                     d.format_option, now, o)
    /\ UNCHANGED <<pyproject, dist_dir, clock>>

\* The project's pyproject.toml is edited and the host reloads it
\* (PoetryTestApplication.reset_poetry).
EditPyproject ==
    /\ UNCHANGED <<tarVars, fnVars>>
    /\ pyproject # EditedTable
    /\ pyproject' = EditedTable
    /\ UNCHANGED <<plugin, disk, dist_dir, wheel_file, sdist_file, last,
                   clock>>

\* Time passes: datetime.now() returns the next instant from now on.
Tick ==
    /\ UNCHANGED <<tarVars, fnVars>>
    /\ clock < Len(Instants)
    /\ clock' = clock + 1
    /\ UNCHANGED <<pyproject, plugin, disk, dist_dir, wheel_file, sdist_file,
                   last>>

\* No function of the module has been applied on its own. No configuration
\* of PyprojectTables imports more than one module, so one order of
\* iteration stands for all of them.
NotApplied ==
    [fn |-> "none", args |-> <<>>, result |-> <<>>, done |-> FALSE]
FnIdle ==
    /\ hash_seed = CHOOSE seed \in HashSeeds : TRUE
    /\ applied = NotApplied

Init == InitPlug /\ TarIdle /\ FnIdle
Next ==
    \/ Handle
    \/ TryOnTerminate
    \/ EditPyproject
    \/ Tick
Spec == Init /\ [][Next]_vars

InitTar == InitTarCall /\ PlugIdle /\ FnIdle
NextTar ==
    \/ IsFile
    \/ GetCompression
    \/ MakeTempDir
    \/ OpenTar
    \/ CheckReplace
    \/ OpenTmp
    \/ CopyMember
    \/ AddNewEntry
    \/ CloseTmp
    \/ CloseTar
    \/ Rename
    \/ Cleanup
    \/ IOFault
    \/ Interrupt
SpecTar == InitTar /\ [][NextTar]_vars

\* ------------------------------------------- the functions on their own
MaxItems == 2
MaxStrLen == 3
MaxProperties == 2

\* "generators" tables: none (the defaults apply), and the project
\* generator under a key of the project's choice beside a generator of the
\* project's own.
GeneratorTables ==
    { Absent,
      Some(<< [key |-> <<"proj">>, locator |-> ProjectGenerator],
              [key |-> <<"demo">>, locator |-> DemoGenerator] >>) }

\* Items of a "properties" array.
PropertyItems ==
    { StrItem(<<"git", Dash, "commit", Dash, "id">>),
      StrItem(<<"project", Dash, "name">>),
      StrItem(<<"proj", Dash, "name">>),
      StrItem(<<"project">>),
      TableItem(Some(<<"git">>), Some(<<"commit", Dash, "id">>), Absent,
                Absent),
      TableItem(Some(<<"proj">>), Some(<<"name">>), Absent, Absent),
      TableItem(Some(<<"proj">>), Some(<<"home", Dash, "page">>),
                Some(<<"home", Dash, "page">>), Some("{url}")),
      TableItem(Absent, Some(<<"name">>), Absent, Absent),
      TableItem(Some(<<"git">>), Absent, Absent, Absent),
      OtherItem }

PropertyTables ==
    {Absent} \cup {Some(items) : items \in SeqsUpTo(PropertyItems, MaxItems)}

\* The characters of the strings as_python is applied to, and the values.
Chars == {Letter, Quote, Backslash, Newline}
ListItems == {<<>>, <<Letter>>, <<Quote>>, <<Backslash, Letter>>, <<Newline>>}
Values ==
    {PyNone, PyBool(TRUE), PyBool(FALSE), PyDatetime("2023-06-09T01:23:45")}
    \cup {PyInt(n) : n \in {0 - 12, 0 - 1, 0, 7, 10, 345}}
    \cup {PyStr(chars) : chars \in SeqsUpTo(Chars, MaxStrLen)}
    \cup {PyList(strings) : strings \in SeqsUpTo(ListItems, MaxItems)}

\* The types of properties.
Types ==
    { StrClass, BoolClass, NoneType, DatetimeClass, FakeDatetime, PathClass,
      GenericAlias(ListClass, <<StrClass>>),
      GenericAlias(ListClass, <<PathClass>>),
      GenericAlias(ListClass, <<FakeDatetime>>),
      UnionType(<<StrClass, NoneType>>),
      UnionType(<<PathClass, NoneType>>),
      GenericAlias(ListClass, <<UnionType(<<DatetimeClass, NoneType>>)>>) }

\* Properties of these types.
TypedProperties ==
    {Property(PropertyConfig(DemoGenerator, <<"x">>, <<"demo", Underscore,
                                                       "x">>, "{}"),
              PyNone, property_type, "{}") : property_type \in Types}

\* Configurations whose properties the generators resolve to values of
\* types that need no, one or two imports.
RenderTables ==
    { Table(Absent, Absent, Some(NoopFormatter), Absent, separator,
            Some(<<[key |-> <<"demo">>, locator |-> DemoGenerator]>>),
            Some(properties)) :
        separator \in {Absent, Some("\r\n")},
        properties \in
            { <<StrItem(<<"demo", Dash, "name">>)>>,
              <<StrItem(<<"demo", Dash, "built">>)>>,
              <<StrItem(<<"demo", Dash, "built">>),
                StrItem(<<"demo", Dash, "paths">>)>>,
              <<StrItem(<<"demo", Dash, "paths">>),
                StrItem(<<"demo", Dash, "frozen">>),
                StrItem(<<"demo", Dash, "name">>)>>,
              <<StrItem(<<"demo", Dash, "root">>)>> } }

\* A function about to be applied to arguments, and applied to them.
Call(fn, args) == [fn |-> fn, args |-> args, result |-> <<>>, done |-> FALSE]
Return(call, result) == [call EXCEPT !.result = <<result>>, !.done = TRUE]

\* initialise of a new plugin instance.
Initialise ==
    /\ applied.fn = "initialise"
    /\ ~applied.done
    /\ applied' = Return(applied,
                         initialise(NewPlugin, applied.args[1], "none"))
    /\ UNCHANGED <<tarVars, plugVars, hash_seed>>

\* as_python(value)
AsPython ==
    /\ applied.fn = "as_python"
    /\ ~applied.done
    /\ applied' = Return(applied, as_python(applied.args[1]))
    /\ UNCHANGED <<tarVars, plugVars, hash_seed>>

\* get_imports_from_properties(properties)
GetImportsFromProperties ==
    /\ applied.fn = "get_imports_from_properties"
    /\ ~applied.done
    /\ applied' = Return(applied,
                         get_imports_from_properties(applied.args[1]))
    /\ UNCHANGED <<tarVars, plugVars, hash_seed>>

\* write_package_info_py of an initialised plugin at an instant, in every
\* process that runs it.
WritePackageInfoPy ==
    /\ applied.fn = "write_package_info_py"
    /\ applied' = Return(applied,
                         write_package_info_py(applied.args[1],
                                               applied.args[2], hash_seed,
                                               "none"))
    /\ UNCHANGED <<tarVars, plugVars, hash_seed>>

\* The host starts another Python process: sets iterate in another order.
StartProcess ==
    /\ \E seed \in HashSeeds :
        /\ seed # hash_seed
        /\ hash_seed' = seed
    /\ UNCHANGED <<tarVars, plugVars, applied>>

InitFn ==
    /\ PlugIdle
    /\ TarIdle
    /\ hash_seed \in HashSeeds
    /\ \/ \E generators \in GeneratorTables, properties \in PropertyTables :
              applied = Call("initialise",
                             <<Table(Absent, Absent, Absent, Absent, Absent,
                                     generators, properties)>>)
       \/ \E value \in Values \cup Types :
              applied = Call("as_python", <<value>>)
       \/ \E properties \in SeqsUpTo(TypedProperties, MaxProperties) :
              applied = Call("get_imports_from_properties", <<properties>>)
       \/ \E table \in RenderTables, i \in 1..Len(Instants) :
              applied = Call("write_package_info_py",
                             <<initialise(NewPlugin, table, "none").plugin,
                               Instants[i]>>)
NextFn ==
    \/ Initialise
    \/ AsPython
    \/ GetImportsFromProperties
    \/ WritePackageInfoPy
    \/ StartProcess
SpecFn == InitFn /\ [][NextFn]_vars


\* ================================================================ claims

\* --------------------------------------------------------------------- C1
\* C1: when append_tar_file(data, name, path, replace=True) has returned on
\* an existing archive, the archive holds every original entry whose name
\* differs from name, in the original order, each with its own metadata and
\* its own content, followed by exactly one entry named name whose size and
\* content are those of data.
C1_ReplaceKeepsOtherEntries ==
    (tar_pc = "done" /\ tar_exc = "none" /\ replace /\ original.exists)
    => archive = ArchiveFile(SelectNot(original.entries, file_name)
                             \o <<TarInfo(file_name, data_bytes)>>)

\* --------------------------------------------------------------------- C2
\* C2: append_tar_file with replace=False on an archive that already holds
\* an entry named name leaves the archive as it was, leaves no temporary
\* file or directory behind and raises no error (the environment's own I/O
\* failures apart).
C2_NoReplaceLeavesArchive ==
    (/\ tar_pc = "done"
     /\ ~io_fault
     /\ ~replace
     /\ original.exists
     /\ file_name \in NamesOf(original.entries))
    => (/\ archive = original
        /\ tmp = NoFile
        /\ ~tempdir
        /\ tar_exc = "none")

\* --------------------------------------------------------------------- C3
HeaderOf(member) ==
    [name |-> member.name, mtime |-> member.mtime, size |-> member.size]
HeadersOf(entries) == [i \in 1..Len(entries) |-> HeaderOf(entries[i])]

\* A closed archive that holds all the kept entries and the new entry.
CompleteNewArchive(file) ==
    /\ file.exists
    /\ file.complete
    /\ HeadersOf(file.entries) =
           HeadersOf(SelectNot(original.entries, file_name)
                     \o <<TarInfo(file_name, data_bytes)>>)
    /\ Last(file.entries) = TarInfo(file_name, data_bytes)

C3_OriginalOrComplete == archive = original \/ CompleteNewArchive(archive)

C3_OnlyRenameOfClosedTmp ==
    archive' # archive
    => (tar_pc = "rename" /\ tmp.exists /\ tmp.complete /\ archive' = tmp)

\* C3: at every step of append_tar_file, also when it fails or is
\* interrupted, the file at the archive path is the complete original or the
\* complete new archive; the only step that changes it is the rename of the
\* temporary archive, taken after that archive was written and closed.
C3_AtomicSwap == []C3_OriginalOrComplete /\ [][C3_OnlyRenameOfClosedTmp]_vars

\* The call is interrupted while the temporary archive is half written.
C3_InterruptedMidCopy ==
    /\ tar_pc = "killed"
    /\ tmp.exists
    /\ ~tmp.complete
    /\ tmp.entries # <<>>
    /\ archive = original
    /\ original.exists

\* --------------------------------------------------------------------- C4
IsBuildHook(call) ==
    /\ call.handler = "try_on_terminate"
    /\ call.event = "ConsoleTerminateEvent"
    /\ call.command = "BuildCommand"

\* C4: after every successful run of the manual generate command and every
\* successful run of the build hook for a build command, the file at the
\* configured output path holds the content rendered and formatted by that
\* run.
C4_BothEntryPointsWriteFile ==
    (last.exc = "none" /\ (last.handler = "handle" \/ IsBuildHook(last)))
    => (/\ plugin.initialized
        /\ disk[plugin.package_info_relative_file_path[1]] =
               Some(write_package_info_py(plugin, last.now, hash_seed,
                                          "none").text))

\* --------------------------------------------------------------------- C5
DistFormats == {"wheel", "sdist"}

\* The formats the build's format option selects.
SelectedFormats(format_option) ==
    IF format_option = Absent \/ format_option = Some("all")
    THEN DistFormats
    ELSE {format_option[1]} \cap DistFormats

\* The formats patch-build-formats asks to patch.
ConfiguredFormats(patch_build_formats) ==
    {f \in DistFormats :
        \E i \in 1..Len(patch_build_formats) :
            patch_build_formats[i] = f \/ patch_build_formats[i] = "all"}

C5_PatchedSet ==
    /\ (IsBuildHook(last) /\ plugin.initialized)
       => LET due == SelectedFormats(last.format_option)
                     \cap ConfiguredFormats(plugin.patch_build_formats[1])
          IN  /\ last.patched \subseteq due
              /\ last.exc = "none" => last.patched = due
    /\ ~IsBuildHook(last) => last.patched = {}

C5_ArchivesTouched ==
    /\ wheel_file' # wheel_file
       => (last'.seq # last.seq /\ "wheel" \in last'.patched)
    /\ sdist_file' # sdist_file
       => (last'.seq # last.seq /\ "sdist" \in last'.patched)
    /\ (plugin'.initialized /\ plugin'.patch_build_formats[1] = <<>>)
       => (wheel_file' = wheel_file /\ sdist_file' = sdist_file)

\* C5: on the terminate event of a build command the artifact of format f is
\* patched if and only if f is selected by the build's format option and
\* patch-build-formats contains f or "all" (all of them once the hook has
\* returned, none but them when it raised); with empty patch-build-formats
\* no archive is touched, and the manual generate command patches none.
C5_PatchedIffSelectedAndConfigured ==
    []C5_PatchedSet /\ [][C5_ArchivesTouched]_vars

\* A build of the wheel alone, with patch-build-formats = ["all"]: the wheel
\* is patched, the sdist is not.
C5_WheelOnlyOfAll ==
    /\ IsBuildHook(last)
    /\ last.exc = "none"
    /\ last.format_option = Some("wheel")
    /\ plugin.initialized
    /\ plugin.patch_build_formats[1] = <<"all">>
    /\ last.patched = {"wheel"}

\* --------------------------------------------------------------------- C6
\* C6: when the listener receives an event that is not a console terminate
\* event, or whose command is not a build command, nothing is resolved, no
\* backend is constructed, no file is written, no archive is patched and no
\* error is logged or raised.
C6_IdleOnOtherEvents ==
    (last.handler = "try_on_terminate" /\ ~IsBuildHook(last))
    => (/\ last.exc = "none"
        /\ last.error_lines = 0
        /\ last.constructed = 0
        /\ last.wrote = {}
        /\ last.patched = {})

\* --------------------------------------------------------------------- C7
C7_NothingBeforeFirstUse == last.handler = "none" => plugin = NewPlugin

C7_ResolvedOnce ==
    /\ plugin' # plugin
       => (last'.seq # last.seq
           /\ (last'.handler = "handle" \/ IsBuildHook(last')))
    /\ plugin.initialized
       => (/\ plugin' = plugin
           /\ last'.seq # last.seq => last'.constructed = 0)

RaisedBy(raised_in) ==
    IF raised_in = "initialise" THEN {"ValueError", "IndexError"}
    ELSE IF raised_in = "generate_property" THEN {"GeneratorError"}
    ELSE IF raised_in = "render" THEN {"AttributeError"}
    ELSE IF raised_in = "format_content" THEN {"FormatterError"}
    ELSE IF raised_in = "get_builder_types" THEN {"ValueError"}
    ELSE IF raised_in = "update_wheel" THEN {"FileNotFoundError"}
    ELSE IF raised_in = "update_sdist" THEN {"OSError"}
    ELSE {}

\* C8: an exception raised at any stage of the generate command or of the
\* build hook is logged in exactly one error line and the same exception
\* reaches the host; no return code stands in for it.
C8_LoggedOnceAndReraised ==
    (last.raised_in # "none" /\ last.raised_in # "event.io")
    => (/\ last.error_lines = 1
        /\ last.exc \in RaisedBy(last.raised_in)
        /\ last.ret = Absent)

\* The formatter raises while the build hook patches an artifact.
C8_FormatterFailsInHook ==
    /\ IsBuildHook(last)
    /\ last.raised_in = "format_content"
    /\ last.error_lines = 1

\* --------------------------------------------------------------------- C9
\* C9: patching an artifact whose file does not exist is a no-op for the
\* wheel and for the sdist: the call creates no file at the archive path and
\* raises no error from the patch.
C9_MissingArchiveNoOp ==
    [][/\ ~wheel_file.exists
          => (/\ ~wheel_file'.exists
              /\ last'.seq # last.seq => last'.raised_in # "update_wheel")
       /\ ~sdist_file.exists
          => (/\ ~sdist_file'.exists
              /\ last'.seq # last.seq => last'.raised_in # "update_sdist")
      ]_vars

\* -------------------------------------------------------------------- C10
RECURSIVE CountNamed(_, _)
CountNamed(entries, name) ==
    IF entries = <<>> THEN 0
    ELSE (IF Head(entries).name = name THEN 1 ELSE 0)
         + CountNamed(Tail(entries), name)

C10_OneMoreEntry ==
    LET name == plugin'.package_info_relative_file_path[1]
    IN  (wheel_file' # wheel_file
         \/ (last'.seq # last.seq /\ "wheel" \in last'.patched))
        => (/\ Len(wheel_file'.entries) = Len(wheel_file.entries) + 1
            /\ SubSeq(wheel_file'.entries, 1, Len(wheel_file.entries))
                   = wheel_file.entries
            /\ Last(wheel_file'.entries).name = name
            /\ CountNamed(wheel_file'.entries, name)
                   = CountNamed(wheel_file.entries, name) + 1)

\* C10: each patch of the wheel appends exactly one entry under the
\* configured relative path and leaves the entries already there as they
\* are, those of the same name included: n patches make n more entries of
\* that name.
C10_ZipPatchAppends == [][C10_OneMoreEntry]_vars

\* The built wheel after two patches: its own entry, then two entries of
\* the same name.
C10_TwoPatchesTwoEntries ==
    /\ Len(wheel_file.entries) = 3
    /\ wheel_file.entries[1] = BuiltWheel.entries[1]
    /\ wheel_file.entries[2].name = wheel_file.entries[3].name
    /\ wheel_file.entries[2].name # wheel_file.entries[1].name

\* -------------------------------------------------------------------- C11
\* The last n tokens of a file name.
EndsWith(name, ending) ==
    /\ Len(name) >= Len(ending)
    /\ SubSeq(name, Len(name) - Len(ending) + 1, Len(name)) = ending

\* The scheme each supported suffix form stands for; <<>> is "none".
SchemeOfSuffix(name) ==
    IF EndsWith(name, <<Dot, "tar", Dot, "gz">>) THEN <<"gz">>
    ELSE IF EndsWith(name, <<Dot, "tgz">>) THEN <<"gz">>
    ELSE IF EndsWith(name, <<Dot, "tar", Dot, "bz2">>) THEN <<"bz2">>
    ELSE IF EndsWith(name, <<Dot, "tar", Dot, "xz">>) THEN <<"xz">>
    ELSE <<>>

\* The statements of append_tar_file that follow the call of
\* get_compression.
AfterGetCompression ==
    {"mkdtemp", "open_tar", "check_replace", "open_tmp", "copy", "close_tmp",
     "close_tar", "rename", "cleanup"}

\* C11: for every supported suffix form of the archive name (.tar, .tar.gz,
\* .tgz, .tar.bz2, .tar.xz, with one suffix or with dotted version numbers
\* before it) get_compression returns the scheme of that suffix, and
\* append_tar_file goes on to read and write the archive with it.
C11_SchemeOfEverySuffixForm ==
    /\ tar_pc \in AfterGetCompression
       => compression = SchemeOfSuffix(tar_file_path)
    /\ (tar_pc = "done" /\ original.exists)
       => tar_exc \notin {"ValueError", "RuntimeError"}

\* ------------------------------------------------------------ C12 .. C14
RECURSIVE BeforeDash(_)
\* The text before the first "-" of a text.
BeforeDash(text) ==
    IF text = <<>> \/ Head(text) = Dash THEN <<>>
    ELSE <<Head(text)>> \o BeforeDash(Tail(text))

RECURSIVE AfterDash(_)
\* The whole text after the first "-" of a text.
AfterDash(text) ==
    IF text = <<>> THEN <<>>
    ELSE IF Head(text) = Dash THEN Tail(text)
    ELSE AfterDash(Tail(text))

RECURSIVE Underscored(_)
\* A text with "_" where it has "-".
Underscored(text) ==
    IF text = <<>> THEN <<>>
    ELSE <<IF Head(text) = Dash THEN Underscore ELSE Head(text)>>
         \o Underscored(Tail(text))

HasDash(text) == \E i \in 1..Len(text) : text[i] = Dash

\* The call of initialise that was made: the items of its "properties"
\* array, the registry it loaded and the requests it parsed.
ItemsOf(call) == get_or_default(call.args[1].properties, DefaultProperties)
RegistryOf(call) == call.result[1].plugin.generators[1]
RequestsOf(call) == call.result[1].plugin.property_configs[1]
Initialised == applied.fn = "initialise" /\ applied.done

InRegistry(registry, key) ==
    \E i \in 1..Len(registry) : registry[i].key = key
InstanceOf(registry, key) ==
    (registry[CHOOSE i \in 1..Len(registry) : registry[i].key = key]).instance

\* The generator key and the property name an item asks for.
KeyOf(item) ==
    IF item.kind = "str" THEN BeforeDash(item.text) ELSE item.generator[1]
NameOf(item) ==
    IF item.kind = "str" THEN AfterDash(item.text) ELSE item.name[1]

\* The items that make a request: a compact string with a key of the
\* registry, a table with both keys and a generator key of the registry.
IsCompact(item) == item.kind = "str" /\ HasDash(item.text)
IsValid(registry, item) ==
    \/ IsCompact(item) /\ InRegistry(registry, KeyOf(item))
    \/ /\ item.kind = "table"
       /\ item.generator # Absent
       /\ item.name # Absent
       /\ InRegistry(registry, KeyOf(item))

\* The position, among the requests, of the request made by item i.
RequestOf(registry, items, i) ==
    Cardinality({j \in 1..i : IsValid(registry, items[j])})

\* C12: a compact string item is split at its first "-": the text before
\* it is the generator key, all of the rest (further "-" included) is the
\* property name. A key that is not in the registry is an error: the item
\* is not skipped, initialise fails and initialized stays false.
C12_CompactItemSplitAtFirstDash ==
    Initialised =>
        LET items == ItemsOf(applied)
            registry == RegistryOf(applied)
            result == applied.result[1]
        IN  /\ \A i \in 1..Len(items) :
                   IsCompact(items[i]) =>
                       IF InRegistry(registry, BeforeDash(items[i].text))
                       THEN result.exc = "none" =>
                            LET request ==
                                    RequestsOf(applied)[
                                        RequestOf(registry, items, i)]
                            IN  /\ request.property_name
                                       = AfterDash(items[i].text)
                                /\ request.property_generator
                                       = InstanceOf(registry,
                                                    BeforeDash(items[i].text))
                       ELSE /\ result.exc # "none"
                            /\ ~result.plugin.initialized
                            /\ result.plugin.property_configs = Absent
            /\ (\A i \in 1..Len(items) :
                    items[i].kind = "str" => IsValid(registry, items[i]))
               => result.exc = "none" /\ result.plugin.initialized

\* A name with two "-" was split after its key: the name keeps the second.
C12_SplitKeepsFurtherDashes ==
    /\ Initialised
    /\ applied.result[1].exc = "none"
    /\ \E i \in 1..Len(RequestsOf(applied)) :
           /\ RequestsOf(applied)[i].property_name
                  = <<"commit", Dash, "id">>
           /\ RequestsOf(applied)[i].property_generator = GitGenerator
    /\ \E i \in 1..Len(ItemsOf(applied)) :
           ItemsOf(applied)[i] = StrItem(<<"git", Dash, "commit", Dash, "id">>)

\* C13: a table item without the generator key or the property name, or
\* with a generator key that is not in the registry, is ignored without an
\* error; the requests are exactly the valid items in the order of the
\* configuration, each with a generator instance of the registry.
C13_InvalidTablesIgnored ==
    Initialised =>
        LET items == ItemsOf(applied)
            registry == RegistryOf(applied)
            result == applied.result[1]
        IN  /\ (\A i \in 1..Len(items) : items[i].kind # "str")
               => result.exc = "none"
            /\ result.exc = "none" =>
                   LET requests == RequestsOf(applied)
                   IN  /\ Len(requests)
                              = RequestOf(registry, items, Len(items))
                       /\ \A i \in 1..Len(items) :
                              IsValid(registry, items[i]) =>
                                  LET request ==
                                          requests[RequestOf(registry, items,
                                                             i)]
                                  IN  /\ request.property_name
                                             = NameOf(items[i])
                                      /\ request.property_generator
                                             = InstanceOf(registry,
                                                          KeyOf(items[i]))
                       /\ \A k \in 1..Len(requests) :
                              \E g \in 1..Len(registry) :
                                  registry[g].instance
                                      = requests[k].property_generator

\* A table with an unknown generator key was dropped and the valid item
\* after it was kept.
C13_DroppedOneKeptOne ==
    /\ Initialised
    /\ applied.result[1].exc = "none"
    /\ Len(ItemsOf(applied)) = 2
    /\ ItemsOf(applied)[1].kind = "table"
    /\ ItemsOf(applied)[1].generator # Absent
    /\ ItemsOf(applied)[1].name # Absent
    /\ ~InRegistry(RegistryOf(applied), ItemsOf(applied)[1].generator[1])
    /\ Len(RequestsOf(applied)) = 1
    /\ RequestsOf(applied)[1].property_name = NameOf(ItemsOf(applied)[2])

\* C14: in both forms the default identifier is the short name the
\* generator reports (not the key it is registered under), "_", and the
\* property name with each "-" turned into "_"; a "variable-name" of a
\* table item is taken as it is.
C14_DefaultIdentifier ==
    (Initialised /\ applied.result[1].exc = "none") =>
        LET items == ItemsOf(applied)
            registry == RegistryOf(applied)
        IN  \A i \in 1..Len(items) :
                IsValid(registry, items[i]) =>
                    LET request ==
                            RequestsOf(applied)[RequestOf(registry, items, i)]
                    IN  request.variable_name
                            = IF items[i].variable # Absent
                              THEN items[i].variable[1]
                              ELSE short_name(InstanceOf(registry,
                                                         KeyOf(items[i])))
                                   \o <<Underscore>>
                                   \o Underscored(NameOf(items[i]))

\* A generator registered under "proj" named its property "project_...",
\* and a given "variable-name" kept its "-".
C14_ShortNameNotKey ==
    /\ Initialised
    /\ applied.result[1].exc = "none"
    /\ Len(RequestsOf(applied)) = 2
    /\ ItemsOf(applied)[1] = StrItem(<<"proj", Dash, "name">>)
    /\ RequestsOf(applied)[1].variable_name
           = <<"project", Underscore, "name">>
    /\ RequestsOf(applied)[2].variable_name = <<"home", Dash, "page">>

\* -------------------------------------------------------------------- C15
\* C15: two runs of write_package_info_py with the same configuration, the
\* same generator results and the same clock value write the same text:
\* the fields in the order of the configuration and the import lines in
\* the same order, whatever modules are imported.
C15_SameInputsSameOutput ==
    [][(/\ applied.fn = "write_package_info_py"
        /\ applied.done
        /\ applied'.done
        /\ applied'.args = applied.args)
       => applied'.result = applied.result]_vars

\* -------------------------------------------------------------------- C16
\* What a Python literal denotes: [ok, value], ok being false of a text
\* that is not an expression (SyntaxError).
NoValue == [ok |-> FALSE, value |-> PyNone]
Denoted(value) == [ok |-> TRUE, value |-> value]

\* The character an escape sequence stands for; backslash and line break
\* is a line continuation and stands for nothing.
Unescape(c) ==
    IF c = Letter THEN <<Newline>>
    ELSE IF c = Newline THEN <<>>
    ELSE <<c>>

RECURSIVE StringBody(_, _, _, _)
\* The rest of a string literal after its opening quote(s) q:
\* [ok, chars, rest]. A literal of one quote ends at the line break.
StringBody(text, q, triple, chars) ==
    IF text = <<>> THEN [ok |-> FALSE, chars |-> <<>>, rest |-> <<>>]
    ELSE IF triple /\ Len(text) >= 3 /\ SubSeq(text, 1, 3) = <<q, q, q>>
    THEN [ok |-> TRUE, chars |-> chars, rest |-> SubSeq(text, 4, Len(text))]
    ELSE IF ~triple /\ Head(text) = q
    THEN [ok |-> TRUE, chars |-> chars, rest |-> Tail(text)]
    ELSE IF Head(text) = Backslash
    THEN IF Len(text) < 2
         THEN [ok |-> FALSE, chars |-> <<>>, rest |-> <<>>]
         ELSE StringBody(SubSeq(text, 3, Len(text)), q, triple,
                         chars \o Unescape(text[2]))
    ELSE IF Head(text) = Newline /\ ~triple
    THEN [ok |-> FALSE, chars |-> <<>>, rest |-> <<>>]
    ELSE StringBody(Tail(text), q, triple, Append(chars, Head(text)))

\* One string literal at the head of a text: [ok, chars, rest].
StringLiteral(text) ==
    IF text = <<>> \/ Head(text) \notin {Quote, Apostrophe}
    THEN [ok |-> FALSE, chars |-> <<>>, rest |-> <<>>]
    ELSE LET q == Head(text)
         IN  IF Len(text) >= 3 /\ SubSeq(text, 1, 3) = <<q, q, q>>
             THEN StringBody(SubSeq(text, 4, Len(text)), q, TRUE, <<>>)
             ELSE StringBody(Tail(text), q, FALSE, <<>>)

RECURSIVE StringLiterals(_, _, _)
\* A text of one or more adjacent string literals, which denote their
\* concatenation; between two of them there may be a line continuation.
StringLiterals(text, chars, n) ==
    IF text = <<>>
    THEN IF n > 0 THEN Denoted(PyStr(chars)) ELSE NoValue
    ELSE IF Head(text) \in {Quote, Apostrophe}
    THEN LET literal == StringLiteral(text)
         IN  IF ~literal.ok THEN NoValue
             ELSE StringLiterals(literal.rest, chars \o literal.chars, n + 1)
    ELSE IF /\ n > 0
            /\ Len(text) > 2
            /\ SubSeq(text, 1, 2) = <<Backslash, Newline>>
    THEN StringLiterals(SubSeq(text, 3, Len(text)), chars, n)
    ELSE NoValue

RECURSIVE ListTail(_, _)
\* A list display after an item: "]" at the end, or ", " and an item.
ListTail(text, items) ==
    IF text = <<"]">> THEN Denoted(PyList(items))
    ELSE IF text # <<>> /\ Head(text) = ", "
    THEN LET literal == StringLiteral(Tail(text))
         IN  IF ~literal.ok THEN NoValue
             ELSE ListTail(literal.rest, Append(items, literal.chars))
    ELSE NoValue

\* A list display of string literals.
ListDisplay(text) ==
    IF text = <<"[", "]">> THEN Denoted(PyList(<<>>))
    ELSE LET literal == StringLiteral(Tail(text))
         IN  IF ~literal.ok THEN NoValue
             ELSE ListTail(literal.rest, <<literal.chars>>)

RECURSIVE DecimalValue(_)
\* The number a sequence of decimal digits denotes.
DecimalValue(digits) ==
    LET digit == CHOOSE d \in 0..9 : DecimalDigits(d) = <<Last(digits)>>
    IN  IF Len(digits) = 1 THEN digit
        ELSE 10 * DecimalValue(SubSeq(digits, 1, Len(digits) - 1)) + digit

IsDecimal(text) ==
    /\ text # <<>>
    /\ \A i \in 1..Len(text) : \E d \in 0..9 : DecimalDigits(d) = <<text[i]>>
    /\ Len(text) > 1 => text[1] # "0"

\* The value a text denotes as a Python expression.
Denotes(text) ==
    IF text = <<"None">> THEN Denoted(PyNone)
    ELSE IF text = <<"True">> THEN Denoted(PyBool(TRUE))
    ELSE IF text = <<"False">> THEN Denoted(PyBool(FALSE))
    ELSE IF IsDecimal(text) THEN Denoted(PyInt(DecimalValue(text)))
    ELSE IF text # <<>> /\ Head(text) = "-" /\ IsDecimal(Tail(text))
    THEN Denoted(PyInt(0 - DecimalValue(Tail(text))))
    ELSE IF text # <<>> /\ Head(text) = "["
    THEN ListDisplay(text)
    ELSE StringLiterals(text, <<>>, 0)

\* C16: for a string (one with a double quote, a backslash or a line break
\* included), a boolean, an integer, None and a list of strings, the text
\* as_python returns denotes a value equal to the one it was given.
C16_AsPythonRoundTrips ==
    (/\ applied.fn = "as_python"
     /\ applied.done
     /\ applied.args[1].kind \in {"str", "bool", "int", "None", "list"})
    => /\ applied.result[1].exc = "none"
       /\ Denotes(applied.result[1].text) = Denoted(applied.args[1])

\* -------------------------------------------------------------------- C17
\* The build hook ran for a build command.
BuildHookRan ==
    /\ last.handler = "try_on_terminate"
    /\ last.event = "ConsoleTerminateEvent"
    /\ last.command = "BuildCommand"

\* The distribution formats a build command can select.
SupportedFormats == {Absent, Some("wheel"), Some("sdist"), Some("all")}

\* C17: when the build hook runs for a build command whose format selector
\* is not wheel, sdist or all, an error is raised and propagated and no
\* archive is patched, whatever the configuration, one without patch
\* formats included.
C17_UnsupportedSelectorRaises ==
    (BuildHookRan /\ last.format_option \notin SupportedFormats)
    => /\ last.exc # "none"
       /\ last.error_lines = 1
       /\ last.patched = {}

\* -------------------------------------------------------------------- C18
RECURSIVE NestedTypes(_)
\* A type and the type arguments nested in it.
NestedTypes(cls) ==
    {cls} \cup UNION {NestedTypes(cls.args[i]) : i \in 1..Len(cls.args)}

TypesOf(properties) ==
    UNION {NestedTypes(properties[i].property_type) :
              i \in 1..Len(properties)}

\* A timestamp type: datetime.datetime or a subclass of it.
IsTimestamp(cls) == cls.kind = "class" /\ cls.datetime

TimestampModule(types) ==
    IF \E cls \in types : IsTimestamp(cls) THEN {"datetime"} ELSE {}

ImportsApplied ==
    applied.fn = "get_imports_from_properties" /\ applied.done

\* C18, as stated: the result is the defining module of every nested type
\* that is neither of builtins nor a union, plus "datetime" when a
\* timestamp type occurs.
C18_ModuleOfEveryType ==
    ImportsApplied =>
        LET types == TypesOf(applied.args[1])
        IN  applied.result[1]
                = {cls.module : cls \in {c \in types : /\ c.module # "builtins"
                                                       /\ c.kind # "union"}}
                  \cup TimestampModule(types)

\* C18, amended: a timestamp type contributes "datetime" in place of its
\* defining module; every other nested type that is neither of builtins
\* nor a union contributes its defining module, and nothing else is in the
\* result.
C18_TimestampInPlaceOfModule ==
    ImportsApplied =>
        LET types == TypesOf(applied.args[1])
        IN  applied.result[1]
                = {cls.module : cls \in {c \in types : /\ ~IsTimestamp(c)
                                                       /\ c.module # "builtins"
                                                       /\ c.kind # "union"}}
                  \cup TimestampModule(types)

\* A list of a datetime subclass of another module and a path: the
\* result is datetime and pathlib.
C18_SubclassImportsDatetime ==
    /\ ImportsApplied
    /\ Len(applied.args[1]) = 2
    /\ applied.args[1][1].property_type
           = GenericAlias(ListClass, <<FakeDatetime>>)
    /\ applied.args[1][2].property_type = UnionType(<<PathClass, NoneType>>)
    /\ applied.result[1] = {"datetime", "pathlib"}

\* -------------------------------------------------------------------- C19
\* C19: the configured line separator is what stands between the lines of
\* the text written: every line ends with it.
C19_LinesEndWithSeparator ==
    (/\ applied.fn = "write_package_info_py"
     /\ applied.done
     /\ applied.result[1].exc = "none")
    => \A i \in 1..Len(applied.result[1].text) :
           applied.result[1].text[i].end = applied.args[1].line_separator[1]

\* -------------------------------------------------------------------- C20
\* C20: when generate_package_info raises (in configuration resolution,
\* property generation, rendering or formatting), the file at the output
\* path has the content it had before the call.
C20_FailureKeepsFile ==
    [][(/\ last'.seq # last.seq
        /\ last'.handler = "handle"
        /\ last'.exc # "none")
       => \A path \in OutputPaths :
              disk[path] # Absent => disk'[path] = disk[path]]_vars

====
